---- MODULE Spec2Model ----
(***************************************************************************)
(* Model of the mock e-commerce application: the inventory search of       *)
(* search.py / main.py and the purchase session of main.py (cart, session  *)
(* inventory copy, wallet, checkout).                                      *)
(*                                                                         *)
(* A Python str is a sequence of characters; a character is a one-token    *)
(* string.  "sz" stands for U+00DF (sharp s), whose str.upper() is the two *)
(* characters "SS".  "\\" is the backslash that re.escape inserts.         *)
(* A Python dict is a sequence of records [k, v] with distinct keys, in    *)
(* insertion order.                                                        *)
(***************************************************************************)
EXTENDS Integers, Sequences, FiniteSets, TLC

VARIABLES query, candidates, search_output, spc,
          inventory, balance, cart, inventory_copy, results, pc, accounts_file

vars == <<query, candidates, search_output, spc,
          inventory, balance, cart, inventory_copy, results, pc, accounts_file>>

searchVars == <<query, candidates, search_output, spc>>
appVars == <<inventory, balance, cart, inventory_copy, results, pc, accounts_file>>

(***************************************************************************)
(* Bounds                                                                  *)
(***************************************************************************)
MaxQueryLen == 3
MaxCands == 2
MaxTypedLen == 1
MaxEntries == 2
MaxQty == 2
MaxBalance == 20000

(***************************************************************************)
(* Characters and strings                                                  *)
(***************************************************************************)
Alphabet == {"a", "A", "b", "sz", " ", ".", "("}

Whitespace == {" ", "\t", "\n", "\r"}

\* bounded set of str values of length 0..n over Alphabet
StringsUpTo(n) == UNION {[1..k -> Alphabet] : k \in 0..n}

Queries == StringsUpTo(MaxQueryLen)

\* item names used as candidates and as catalog keys
NamePool == { <<"A", "b">>, <<"a", "(">>, <<"b", ".", "a">>, <<"sz">> }

CandLists == UNION {[1..k -> NamePool] : k \in 0..MaxCands}

RECURSIVE Concat(_)
Concat(ss) == IF ss = <<>> THEN <<>> ELSE Head(ss) \o Concat(Tail(ss))

\* str.upper() / str.lower(), character by character
UpperChar(c) ==
    CASE c = "a" -> <<"A">>
      [] c = "b" -> <<"B">>
      [] c = "s" -> <<"S">>
      [] c = "sz" -> <<"S", "S">>
      [] OTHER -> <<c>>

LowerChar(c) ==
    CASE c = "A" -> <<"a">>
      [] c = "B" -> <<"b">>
      [] c = "S" -> <<"s">>
      [] OTHER -> <<c>>

str_upper(s) == Concat([i \in 1..Len(s) |-> UpperChar(s[i])])
str_lower(s) == Concat([i \in 1..Len(s) |-> LowerChar(s[i])])

\* query.split(): split on runs of whitespace, empty fragments discarded
RECURSIVE SplitFrom(_, _, _, _)
SplitFrom(s, i, cur, acc) ==
    IF i > Len(s)
    THEN IF cur = <<>> THEN acc ELSE Append(acc, cur)
    ELSE IF s[i] \in Whitespace
         THEN SplitFrom(s, i + 1, <<>>, IF cur = <<>> THEN acc ELSE Append(acc, cur))
         ELSE SplitFrom(s, i + 1, Append(cur, s[i]), acc)

str_split_nosplit(s) == IF s = <<>> THEN <<>> ELSE <<s>>

str_split(s) == SplitFrom(s, 1, <<>>, <<>>)

(***************************************************************************)
(* The re module: escape, compile (IGNORECASE), Pattern.search             *)
(***************************************************************************)
\* characters re.escape prefixes with a backslash
SpecialChars == {"(", ")", "[", "]", "{", "}", "?", "*", "+", "-", "|", "^", "$",
                 "\\", ".", "&", "~", "#", " ", "\t", "\n", "\r"}

re_escape_none(term) == term

re_escape(term) ==
    Concat([i \in 1..Len(term) |->
              IF term[i] \in SpecialChars THEN <<"\\", term[i]>> ELSE <<term[i]>>])

Letters == {"a", "A", "b", "B", "s", "S", "sz"}

\* Parsing of a pattern made of literals, escapes, '.', and plain groups.
\* Result: [ok |-> FALSE] on re.error, else the atoms to match in sequence.
RECURSIVE ParseFrom(_, _, _, _)
ParseFrom(p, i, depth, atoms) ==
    IF i > Len(p)
    THEN IF depth > 0 THEN [ok |-> FALSE, atoms |-> <<>>]     \* missing )
         ELSE [ok |-> TRUE, atoms |-> atoms]
    ELSE CASE p[i] = "\\" ->
                IF i = Len(p) \/ p[i + 1] \in Letters
                THEN [ok |-> FALSE, atoms |-> <<>>]           \* bad escape
                ELSE ParseFrom(p, i + 2, depth,
                               Append(atoms, [kind |-> "lit", ch |-> p[i + 1]]))
           [] p[i] = "." ->
                ParseFrom(p, i + 1, depth, Append(atoms, [kind |-> "any", ch |-> "."]))
           [] p[i] = "(" ->
                ParseFrom(p, i + 1, depth + 1, atoms)
           [] p[i] = ")" ->
                IF depth = 0 THEN [ok |-> FALSE, atoms |-> <<>>]  \* unbalanced
                ELSE ParseFrom(p, i + 1, depth - 1, atoms)
           [] OTHER ->
                ParseFrom(p, i + 1, depth, Append(atoms, [kind |-> "lit", ch |-> p[i]]))

re_compile(pattern) == ParseFrom(pattern, 1, 0, <<>>)

\* simple lower-casing used by IGNORECASE matching (one character to one)
ToLower_exact(c) == c

ToLower(c) ==
    CASE c = "A" -> "a"
      [] c = "B" -> "b"
      [] c = "S" -> "s"
      [] OTHER -> c

AtomMatches(atom, c) ==
    IF atom.kind = "any" THEN c # "\n"
    ELSE ToLower(atom.ch) = ToLower(c)

\* Pattern.match(item): the atoms match at the start of the item only
pattern_match(compiled, item) ==
    LET n == Len(compiled.atoms) IN
    /\ n <= Len(item)
    /\ \A k \in 1..n : AtomMatches(compiled.atoms[k], item[k])

\* Pattern.search(item): some position where all atoms match in sequence
pattern_search(compiled, item) ==
    LET n == Len(compiled.atoms) IN
    \E start \in 0..(Len(item) - n) :
        \A k \in 1..n : AtomMatches(compiled.atoms[k], item[start + k])

(***************************************************************************)
(* search_inventory                                                        *)
(***************************************************************************)
regex_patterns(q) ==
    LET search_terms == str_split(q) IN
    [i \in 1..Len(search_terms) |-> re_compile(re_escape(search_terms[i]))]

\* re.compile raising re.error propagates out of search_inventory
search_raises(q) ==
    \E i \in 1..Len(regex_patterns(q)) : ~regex_patterns(q)[i].ok

any_pattern(patterns, item) ==
    \E i \in 1..Len(patterns) : pattern_search(patterns[i], item)

all_pattern(patterns, item) ==
    \A i \in 1..Len(patterns) : pattern_search(patterns[i], item)

RECURSIVE FilterItems(_, _)
FilterItems(patterns, items) ==
    IF items = <<>> THEN <<>>
    ELSE LET rest == FilterItems(patterns, Tail(items)) IN
         IF all_pattern(patterns, Head(items)) THEN <<Head(items)>> \o rest ELSE rest

RECURSIVE Reverse(_)
Reverse(s) == IF s = <<>> THEN <<>> ELSE Append(Reverse(Tail(s)), Head(s))

search_inventory_prepend(q, items) == Reverse(FilterItems(regex_patterns(q), items))

\* search.py: search_inventory(query, inventory: list)
search_inventory(q, items) == FilterItems(regex_patterns(q), items)

\* main.py: [re.compile(re.escape(term), re.IGNORECASE) for term in query.split()]
main_regex_patterns(q) ==
    LET search_terms == str_split(q) IN
    [i \in 1..Len(search_terms) |-> re_compile(re_escape(search_terms[i]))]

\* main.py: for item_name in inventory.keys(): if all(...): search_output.append
RECURSIVE MainSearchLoop(_, _, _, _)
MainSearchLoop(patterns, inv, i, out) ==
    IF i > Len(inv) THEN out
    ELSE MainSearchLoop(patterns, inv, i + 1,
           IF \A j \in 1..Len(patterns) : pattern_search(patterns[j], inv[i].k)
           THEN Append(out, inv[i].k)
           ELSE out)

\* a variant that returns the matching names in sorted (here: reversed key) order
main_search_inventory_reordered(q, inv) ==
    Reverse(MainSearchLoop(main_regex_patterns(q), inv, 1, <<>>))

\* main.py: search_inventory(query, inventory: dict) iterates inventory.keys()
main_search_inventory(q, inv) ==
    MainSearchLoop(main_regex_patterns(q), inv, 1, <<>>)

(***************************************************************************)
(* Python dict operations                                                  *)
(***************************************************************************)
EmptyDict == <<>>

Keys(d) == [i \in 1..Len(d) |-> d[i].k]

Has(d, key) == \E i \in 1..Len(d) : d[i].k = key

Get(d, key) == d[CHOOSE i \in 1..Len(d) : d[i].k = key].v

\* d[key] = val : overwrite in place, or insert at the end
Put(d, key, val) ==
    IF Has(d, key)
    THEN [i \in 1..Len(d) |-> IF d[i].k = key THEN [k |-> key, v |-> val] ELSE d[i]]
    ELSE Append(d, [k |-> key, v |-> val])

\* del d[key]
Del(d, key) == SelectSeq(d, LAMBDA e : e.k # key)

(***************************************************************************)
(* Catalog loading                                                         *)
(***************************************************************************)
CatalogNames == { <<"A", "b">>, <<"a", "(">> }
Prices == {10001, 20002}

\* the name:price entries of the warehouse files, in file order
WarehouseEntries ==
    UNION {[1..n -> [k : CatalogNames, v : Prices]] : n \in 1..MaxEntries}

\* load_warehouse_inventory: inventory[name] = price for each parsed entry
RECURSIVE LoadInto(_, _)
LoadInto(d, entries) ==
    IF entries = <<>> THEN d
    ELSE LoadInto(Put(d, Head(entries).k, Head(entries).v), Tail(entries))

load_warehouse_inventory(entries) == LoadInto(EmptyDict, entries)

funding_options == <<10000, 20000, 50000, 100000>>

(***************************************************************************)
(* search.py run on its own: one call of search_inventory(query, candidates)*)
(***************************************************************************)
AppIdle ==
    /\ inventory = EmptyDict
    /\ balance = 0
    /\ cart = EmptyDict
    /\ inventory_copy = EmptyDict
    /\ results = <<>>
    /\ pc = "none"
    /\ accounts_file = 0

SearchIdle ==
    /\ query = <<>>
    /\ candidates = <<>>
    /\ search_output = <<>>
    /\ spc = "none"

InitSearch ==
    /\ query \in Queries
    /\ candidates \in CandLists
    /\ search_output = <<>>
    /\ spc = "call"
    /\ AppIdle

SearchCall ==
    /\ spc = "call"
    /\ IF search_raises(query)
       THEN /\ spc' = "raised"
            /\ UNCHANGED search_output
       ELSE /\ search_output' = search_inventory(query, candidates)
            /\ spc' = "returned"
    /\ UNCHANGED <<query, candidates>>
    /\ UNCHANGED appVars

NextSearch == SearchCall

SpecSearch == InitSearch /\ [][NextSearch]_vars

(***************************************************************************)
(* main.py: the application after start-up and login                       *)
(***************************************************************************)
Catalogs == { load_warehouse_inventory(e) : e \in WarehouseEntries }

Init ==
    /\ SearchIdle
    /\ inventory \in Catalogs
    /\ balance = 0
    /\ cart = EmptyDict
    /\ inventory_copy = EmptyDict
    /\ results = <<>>
    /\ pc = "main"
    /\ accounts_file = balance

\* cart.get(item, 0)
CartQty(c, item) == IF Has(c, item) THEN Get(c, item) ELSE 0

\* str.strip()
RECURSIVE StripLeft(_)
StripLeft(s) ==
    IF s # <<>> /\ Head(s) \in Whitespace THEN StripLeft(Tail(s)) ELSE s

str_strip(s) == Reverse(StripLeft(Reverse(StripLeft(s))))

fund_wallet(choice) ==
    /\ pc = "main"
    /\ balance + funding_options[choice] <= MaxBalance
    /\ balance' = balance + funding_options[choice]
    /\ accounts_file' = balance'                       \* save_accounts
    /\ UNCHANGED <<inventory, cart, inventory_copy, results, pc>>
    /\ UNCHANGED searchVars

reset_balance(password_ok, confirm) ==
    /\ pc = "main"
    /\ IF password_ok /\ confirm = "yes"
       THEN balance' = 0 /\ accounts_file' = 0       \* save_accounts
       ELSE UNCHANGED <<balance, accounts_file>>
    /\ UNCHANGED <<inventory, cart, inventory_copy, results, pc>>
    /\ UNCHANGED searchVars

\* run_menu choice 2: a new session with an empty cart and a copy of the catalog
purchase_menu ==
    /\ pc = "main"
    /\ cart' = EmptyDict
    /\ inventory_copy' = inventory
    /\ pc' = "purchase"
    /\ UNCHANGED <<inventory, balance, results>>
    /\ UNCHANGED <<searchVars, accounts_file>>

\* purchase_menu choices 1 and 2
purchase_choice(next) ==
    /\ pc = "purchase"
    /\ pc' = next
    /\ UNCHANGED <<inventory, balance, cart, inventory_copy, results>>
    /\ UNCHANGED <<searchVars, accounts_file>>

\* purchase_menu choice 4: the session's cart and inventory copy are dropped
purchase_exit ==
    /\ pc = "purchase"
    /\ pc' = "main"
    /\ cart' = EmptyDict
    /\ inventory_copy' = EmptyDict
    /\ UNCHANGED <<inventory, balance, results>>
    /\ UNCHANGED <<searchVars, accounts_file>>

\* a variant that drops the rejected items from the inventory it searches
search_items_filtering(q) ==
    /\ pc = "search"
    /\ results' = main_search_inventory(str_strip(q), inventory_copy)
    /\ inventory_copy' = SelectSeq(inventory_copy,
                             LAMBDA e : \E j \in 1..Len(results') : results'[j] = e.k)
    /\ pc' = IF results' = <<>> THEN "search" ELSE "results"
    /\ UNCHANGED <<inventory, balance, cart>>
    /\ UNCHANGED <<searchVars, accounts_file>>

\* search_items: one query typed at the prompt
search_items(q) ==
    /\ pc = "search"
    /\ IF search_raises(str_strip(q))
       THEN /\ pc' = "crashed"
            /\ UNCHANGED results
       ELSE /\ results' = main_search_inventory(str_strip(q), inventory_copy)
            /\ pc' = IF results' = <<>> THEN "search" ELSE "results"
    /\ UNCHANGED <<inventory, balance, cart, inventory_copy>>
    /\ UNCHANGED <<searchVars, accounts_file>>

\* search_items: 'back' at the query prompt
search_back ==
    /\ pc = "search"
    /\ pc' = "purchase"
    /\ UNCHANGED <<inventory, balance, cart, inventory_copy, results>>
    /\ UNCHANGED <<searchVars, accounts_file>>

\* search_items: the menu under the results (1 again, 2 add, 3 exit)
results_menu(choice) ==
    /\ pc = "results"
    /\ pc' = CASE choice = 1 -> "search" [] choice = 2 -> "add" [] OTHER -> "purchase"
    /\ results' = IF choice = 2 THEN results ELSE <<>>
    /\ UNCHANGED <<inventory, balance, cart, inventory_copy>>
    /\ UNCHANGED <<searchVars, accounts_file>>

\* if item not in cart: cart[item] = 0 ; cart[item] += quantity
cart_add(c, item, quantity) == Put(c, item, CartQty(c, item) + quantity)

add_items_to_cart_keep_inventory(item_num, quantity) ==
    /\ pc = "add"
    /\ item_num \in 1..Len(results) /\ quantity > 0
    /\ cart' = cart_add(cart, results[item_num], quantity)
    /\ pc' = "search"
    /\ results' = <<>>
    /\ UNCHANGED <<inventory, balance, inventory_copy>>
    /\ UNCHANGED <<searchVars, accounts_file>>

\* add_items_to_cart(cart, results, inventory_copy): item number, then quantity
add_items_to_cart(item_num, quantity) ==
    /\ pc = "add"
    /\ IF item_num = 0
       THEN /\ pc' = "search"
            /\ results' = <<>>
            /\ UNCHANGED <<cart, inventory_copy>>
       ELSE IF item_num \in 1..Len(results) /\ quantity > 0
       THEN LET item == results[item_num] IN
            /\ CartQty(cart, item) + quantity <= MaxQty
            /\ cart' = cart_add(cart, item, quantity)
            /\ inventory_copy' =
                 Put(inventory_copy, item, Get(inventory_copy, item) - quantity)
            /\ pc' = "search"
            /\ results' = <<>>
       ELSE UNCHANGED <<cart, inventory_copy, pc, results>>   \* asked again
    /\ UNCHANGED <<inventory, balance>>
    /\ UNCHANGED <<searchVars, accounts_file>>

\* a variant in which the session works on the catalog itself, not on a copy
add_items_menu_aliased(item_num, quantity) ==
    /\ pc = "manage"
    /\ item_num \in 1..Len(inventory_copy) /\ quantity > 0
    /\ LET item == inventory_copy[item_num].k IN
       /\ CartQty(cart, item) + quantity <= MaxQty
       /\ cart' = cart_add(cart, item, quantity)
       /\ inventory_copy' =
            Put(inventory_copy, item, Get(inventory_copy, item) - quantity)
       /\ inventory' = inventory_copy'
    /\ UNCHANGED <<balance, results, pc>>
    /\ UNCHANGED <<searchVars, accounts_file>>

\* manage_cart choice 2
add_items_menu(item_num, quantity) ==
    /\ pc = "manage"
    /\ LET items == Keys(inventory_copy) IN
       IF item_num \in 1..Len(items) /\ quantity > 0
       THEN LET item == items[item_num] IN
            /\ CartQty(cart, item) + quantity <= MaxQty
            /\ cart' = cart_add(cart, item, quantity)
            /\ inventory_copy' =
                 Put(inventory_copy, item, Get(inventory_copy, item) - quantity)
       ELSE UNCHANGED <<cart, inventory_copy>>
    /\ UNCHANGED <<inventory, balance, results, pc>>
    /\ UNCHANGED <<searchVars, accounts_file>>

remove_items_from_cart_keep_inventory(item_num, qty_to_remove) ==
    /\ pc = "manage"
    /\ cart # EmptyDict
    /\ item_num \in 1..Len(cart)
    /\ qty_to_remove > 0 /\ qty_to_remove <= cart[item_num].v
    /\ cart' = IF cart[item_num].v = qty_to_remove
               THEN Del(cart, cart[item_num].k)
               ELSE Put(cart, cart[item_num].k, cart[item_num].v - qty_to_remove)
    /\ UNCHANGED <<inventory, balance, results, pc, inventory_copy>>
    /\ UNCHANGED <<searchVars, accounts_file>>

\* manage_cart choice 3
remove_items_from_cart(item_num, qty_to_remove) ==
    /\ pc = "manage"
    /\ cart # EmptyDict
    /\ LET items == Keys(cart) IN
       IF /\ item_num \in 1..Len(items)
          /\ qty_to_remove > 0
          /\ qty_to_remove <= Get(cart, items[item_num])
       THEN LET item == items[item_num]
                left == Get(cart, item) - qty_to_remove IN
            /\ cart' = IF left = 0 THEN Del(cart, item) ELSE Put(cart, item, left)
            /\ inventory_copy' =
                 Put(inventory_copy, item, Get(inventory_copy, item) + qty_to_remove)
       ELSE UNCHANGED <<cart, inventory_copy>>
    /\ UNCHANGED <<inventory, balance, results, pc>>
    /\ UNCHANGED <<searchVars, accounts_file>>

\* for item, qty in cart.items(): if item in inventory: inventory[item] += qty
RECURSIVE RestoreInventory(_, _)
RestoreInventory(inv, c) ==
    IF c = <<>> THEN inv
    ELSE RestoreInventory(
           IF Has(inv, Head(c).k)
           THEN Put(inv, Head(c).k, Get(inv, Head(c).k) + Head(c).v)
           ELSE inv,
           Tail(c))

\* manage_cart choice 4
clear_cart ==
    /\ pc = "manage"
    /\ inventory_copy' = RestoreInventory(inventory_copy, cart)
    /\ cart' = EmptyDict
    /\ UNCHANGED <<inventory, balance, results, pc>>
    /\ UNCHANGED <<searchVars, accounts_file>>

\* manage_cart choice 5
manage_exit ==
    /\ pc = "manage"
    /\ pc' = "purchase"
    /\ UNCHANGED <<inventory, balance, cart, inventory_copy, results>>
    /\ UNCHANGED <<searchVars, accounts_file>>

\* checkout: total += inventory.get(item) * qty over the cart
RECURSIVE CartTotal(_, _)
CartTotal(c, inv) ==
    IF c = <<>> THEN 0
    ELSE (IF Has(inv, Head(c).k) THEN Get(inv, Head(c).k) * Head(c).v ELSE 0)
         + CartTotal(Tail(c), inv)

\* a variant that empties the cart before it looks at the balance
checkout_clear_first(proceed) ==
    /\ pc = "purchase"
    /\ LET total == CartTotal(cart, inventory_copy) IN
       IF cart = EmptyDict \/ proceed # "yes"
       THEN UNCHANGED <<balance, cart, accounts_file>>
       ELSE /\ cart' = EmptyDict
            /\ IF balance < total
               THEN UNCHANGED <<balance, accounts_file>>
               ELSE balance' = balance - total /\ accounts_file' = balance'
    /\ UNCHANGED <<inventory, inventory_copy, results, pc>>
    /\ UNCHANGED searchVars

\* a variant without the insufficient-funds test
checkout_unchecked(proceed) ==
    /\ pc = "purchase"
    /\ LET total == CartTotal(cart, inventory_copy) IN
       IF cart = EmptyDict \/ proceed # "yes"
       THEN UNCHANGED <<balance, cart, accounts_file>>
       ELSE /\ balance' = balance - total
            /\ accounts_file' = balance'
            /\ cart' = EmptyDict
    /\ UNCHANGED <<inventory, inventory_copy, results, pc>>
    /\ UNCHANGED searchVars

checkout(proceed) ==
    /\ pc = "purchase"
    /\ LET total == CartTotal(cart, inventory_copy) IN
       IF cart = EmptyDict \/ proceed # "yes" \/ balance < total
       THEN UNCHANGED <<balance, cart, accounts_file>>
       ELSE /\ balance' = balance - total
            /\ accounts_file' = balance'               \* save_accounts
            /\ cart' = EmptyDict
    /\ UNCHANGED <<inventory, inventory_copy, results, pc>>
    /\ UNCHANGED searchVars

\* what the user types at the prompts of a session
TypedQueries == StringsUpTo(MaxTypedLen)
Quantities == 0..MaxQty
ItemNumbers == 0..(MaxEntries + 1)

CartNext ==
    \/ purchase_menu
    \/ \E next \in {"search", "manage"} : purchase_choice(next)
    \/ purchase_exit
    \/ \E q \in TypedQueries : search_items(q)
    \/ search_back
    \/ \E choice \in 1..3 : results_menu(choice)
    \/ \E n \in ItemNumbers, quantity \in Quantities : add_items_to_cart(n, quantity)
    \/ \E n \in ItemNumbers, quantity \in Quantities : add_items_menu(n, quantity)
    \/ \E n \in ItemNumbers, quantity \in Quantities : remove_items_from_cart(n, quantity)
    \/ clear_cart
    \/ manage_exit

Next ==
    \/ CartNext
    \/ \E choice \in 1..Len(funding_options) : fund_wallet(choice)
    \/ \E ok \in BOOLEAN, confirm \in {"yes", "no"} : reset_balance(ok, confirm)
    \/ \E proceed \in {"yes", "no"} : checkout(proceed)

Spec == Init /\ [][Next]_vars

\* a purchase session in which no checkout takes place
SpecCart == Init /\ [][CartNext]_vars

(***************************************************************************)
(* Both search_inventory functions called with the same query, search.py's *)
(* on the key list of the mapping that main.py's is given                  *)
(***************************************************************************)
\* name-to-price mappings over the item names
EquivMappings ==
    { load_warehouse_inventory(e) :
        e \in UNION {[1..n -> [k : NamePool, v : {10001}]] : n \in 0..MaxCands} }

InitEquiv ==
    /\ query \in Queries
    /\ inventory \in EquivMappings
    /\ candidates = Keys(inventory)
    /\ search_output = <<>>
    /\ spc = "call"
    /\ balance = 0
    /\ accounts_file = 0
    /\ cart = EmptyDict
    /\ inventory_copy = EmptyDict
    /\ results = <<>>
    /\ pc = "call"

\* main.py: one call of search_inventory(query, inventory)
MainSearchCall ==
    /\ pc = "call"
    /\ IF \E i \in 1..Len(main_regex_patterns(query)) : ~main_regex_patterns(query)[i].ok
       THEN /\ pc' = "raised"
            /\ UNCHANGED results
       ELSE /\ results' = main_search_inventory(query, inventory)
            /\ pc' = "returned"
    /\ UNCHANGED <<inventory, balance, cart, inventory_copy, accounts_file>>
    /\ UNCHANGED searchVars

NextEquiv == SearchCall \/ MainSearchCall

SpecEquiv == InitEquiv /\ [][NextEquiv]_vars

(***************************************************************************)
(* Vocabulary of the search properties, stated without the re module       *)
(***************************************************************************)
IsWs(c) == c \in {" ", "\t", "\n", "\r"}

\* the whitespace-delimited terms of q: its maximal whitespace-free substrings
TermSet(q) ==
    { SubSeq(q, i, j) : <<i, j>> \in
        { ij \in (1..Len(q)) \X (1..Len(q)) :
            /\ ij[1] <= ij[2]
            /\ \A k \in ij[1]..ij[2] : ~IsWs(q[k])
            /\ (ij[1] = 1 \/ IsWs(q[ij[1] - 1]))
            /\ (ij[2] = Len(q) \/ IsWs(q[ij[2] + 1])) } }

CasePairs == { {"a", "A"}, {"b", "B"}, {"s", "S"} }

SameLetter(x, y) == x = y \/ {x, y} \in CasePairs

\* t occurs in c as a substring, letters compared without regard to case
ContainsCI(c, t) ==
    \E start \in 0..(Len(c) - Len(t)) :
        \A k \in 1..Len(t) : SameLetter(c[start + k], t[k])

MatchesAllTerms(q, c) == \A t \in TermSet(q) : ContainsCI(c, t)

InOutput(c) == \E j \in 1..Len(search_output) : search_output[j] = c

\* C1: a candidate is in the result iff every whitespace-delimited term of the
\* query occurs in it as a substring under case-insensitive comparison.
C1_ConjunctiveSubstring ==
    spc = "returned" =>
        \A i \in 1..Len(candidates) :
            InOutput(candidates[i]) <=> MatchesAllTerms(query, candidates[i])

\* two terms, one candidate kept, and a rejected candidate that contains one
\* of the terms (so a disjunction would have kept it)
C1_Witness ==
    /\ spc = "returned"
    /\ Cardinality(TermSet(query)) = 2
    /\ Len(candidates) = 2
    /\ Len(search_output) = 1
    /\ \E i \in 1..2 : /\ ~InOutput(candidates[i])
                       /\ \E t \in TermSet(query) : ContainsCI(candidates[i], t)

RECURSIVE IsSubsequence(_, _)
IsSubsequence(r, c) ==
    IF r = <<>> THEN TRUE
    ELSE IF c = <<>> THEN FALSE
    ELSE IF Head(r) = Head(c) THEN IsSubsequence(Tail(r), Tail(c))
    ELSE IsSubsequence(r, Tail(c))

\* C2: the result is an order-preserving subsequence of the candidate list,
\* and an empty candidate list gives an empty result.
C2_Subsequence ==
    spc = "returned" =>
        /\ IsSubsequence(search_output, candidates)
        /\ (candidates = <<>> => search_output = <<>>)

C2_Witness ==
    /\ spc = "returned"
    /\ TermSet(query) # {}
    /\ Len(candidates) = 2
    /\ candidates[1] # candidates[2]
    /\ search_output = candidates

AllWhitespace(q) == \A k \in 1..Len(q) : IsWs(q[k])

\* C3: an empty or all-whitespace query returns exactly the candidate list.
C3_EmptyQueryReturnsAll ==
    (spc # "call" /\ AllWhitespace(query)) =>
        (spc = "returned" /\ search_output = candidates)

C3_Witness ==
    /\ spc = "returned"
    /\ Len(query) >= 2
    /\ AllWhitespace(query)
    /\ Len(candidates) = 2
    /\ search_output = candidates

PatternMeta == {".", "*", "(", ")"}

HasMeta(t) == \E k \in 1..Len(t) : t[k] \in PatternMeta

\* t occurs in c with every metacharacter of t standing for itself
ContainsLiteral(c, t) ==
    \E start \in 0..(Len(c) - Len(t)) :
        \A k \in 1..Len(t) :
            IF t[k] \in PatternMeta THEN c[start + k] = t[k]
            ELSE SameLetter(c[start + k], t[k])

\* C4: a term with pattern metacharacters matches only candidates containing
\* those exact characters, and never makes the search fail.
C4_LiteralTerms ==
    /\ spc # "raised"
    /\ spc = "returned" =>
        \A j \in 1..Len(search_output) :
            \A t \in TermSet(query) :
                HasMeta(t) => ContainsLiteral(search_output[j], t)

\* a term with '.' keeps one candidate and rejects one of the same length
\* or longer, which '.' read as a wildcard would have kept
C4_Witness ==
    /\ spc = "returned"
    /\ \E t \in TermSet(query) : "." \in {t[k] : k \in 1..Len(t)}
    /\ Len(search_output) = 1
    /\ Len(candidates) = 2
    /\ \E i \in 1..2 : /\ ~InOutput(candidates[i])
                       /\ Len(candidates[i]) >= Len(query)

IsAscii(s) == \A k \in 1..Len(s) : s[k] # "sz"

MapSeq(Op(_), ss) == [i \in 1..Len(ss) |-> Op(ss[i])]

\* positions of cands that the search on q selects
Selected(q, cands) ==
    { i \in 1..Len(cands) : search_inventory(q, <<cands[i]>>) # <<>> }

\* C5 as stated: for every query, upper-casing and lower-casing the query give
\* the same result, and changing the case of candidate names does not change
\* the selected positions.
C5_CaseIndependent ==
    spc = "returned" =>
        /\ search_inventory(str_upper(query), candidates)
             = search_inventory(str_lower(query), candidates)
        /\ Selected(query, MapSeq(str_upper, candidates)) = Selected(query, candidates)
        /\ Selected(query, MapSeq(str_lower, candidates)) = Selected(query, candidates)

\* C5 amended: the same, for ASCII queries (first part) and ASCII candidate
\* names (second part).
C5_CaseIndependentAscii ==
    spc = "returned" =>
        /\ IsAscii(query) =>
             search_inventory(str_upper(query), candidates)
               = search_inventory(str_lower(query), candidates)
        /\ (\A i \in 1..Len(candidates) : IsAscii(candidates[i])) =>
             /\ Selected(query, MapSeq(str_upper, candidates)) = Selected(query, candidates)
             /\ Selected(query, MapSeq(str_lower, candidates)) = Selected(query, candidates)

C5_Witness ==
    /\ spc = "returned"
    /\ IsAscii(query)
    /\ str_upper(query) # query
    /\ str_lower(query) # query
    /\ \A i \in 1..Len(candidates) : IsAscii(candidates[i])
    /\ Len(candidates) = 2
    /\ Len(search_output) = 1
    /\ str_upper(search_output[1]) # search_output[1]
    /\ str_lower(search_output[1]) # search_output[1]

\* q with one whitespace character inserted before position i + 1
InsertWs(q, i, w) == SubSeq(q, 1, i) \o <<w>> \o SubSeq(q, i + 1, Len(q))

RemoveAt(q, i) == SubSeq(q, 1, i - 1) \o SubSeq(q, i + 1, Len(q))

\* positions where adding or dropping a whitespace character keeps the terms:
\* at either end of q, or next to another whitespace character
WsVariants(q) ==
    { InsertWs(q, i, " ") : i \in { n \in 0..Len(q) :
          n = 0 \/ n = Len(q) \/ IsWs(q[n]) \/ IsWs(q[n + 1]) } }
    \cup
    { RemoveAt(q, i) : i \in { n \in 1..Len(q) :
          /\ IsWs(q[n])
          /\ (n = 1 \/ n = Len(q) \/ IsWs(q[n - 1]) \/ IsWs(q[n + 1])) } }

\* C8: queries that differ only in leading, trailing or repeated whitespace
\* return the same result.
C8_WhitespaceInsensitive ==
    spc = "returned" =>
        \A v \in WsVariants(query) :
            /\ ~search_raises(v)
            /\ search_inventory(v, candidates) = search_output

C8_Witness ==
    /\ spc = "returned"
    /\ Len(query) = 3
    /\ IsWs(query[1]) /\ ~IsWs(query[2]) /\ IsWs(query[3])
    /\ Len(candidates) = 2
    /\ Len(search_output) = 1

InSession == pc \in {"purchase", "search", "results", "add", "manage"}

\* C6: a search call is read-only: the query, the candidate list (search.py)
\* or name-to-price mapping (main.py), the catalog, the cart and the account
\* balance are the same after the call as before it.
C6_SearchReadOnly ==
    [][(SearchCall \/ \E q \in TypedQueries : search_items(q)) =>
          UNCHANGED <<query, candidates, inventory, inventory_copy, cart, balance>>]_vars

\* results of a search that selected part of a session inventory from which
\* items are already in the cart
C6_Witness ==
    /\ pc = "results"
    /\ cart # EmptyDict
    /\ results # <<>>
    /\ Len(results) < Len(inventory_copy)
    /\ inventory_copy # inventory

C9_InventoryPlusCartConstant ==
    InSession =>
        /\ Keys(inventory_copy) = Keys(inventory)
        /\ \A i \in 1..Len(inventory) :
             inventory_copy[i].v + CartQty(cart, inventory[i].k) = inventory[i].v
        /\ \A j \in 1..Len(cart) : Has(inventory, cart[j].k) /\ cart[j].v > 0
        /\ (cart = EmptyDict => inventory_copy = inventory)

\* two items in the cart, the later catalog item added first
C9_Witness ==
    /\ pc = "manage"
    /\ Len(cart) = 2
    /\ cart[1].k = inventory[2].k
    /\ cart[1].v = 1
    /\ cart[2].v = 2

\* sum over the cart of catalog price times quantity
RECURSIVE CatalogTotal(_)
CatalogTotal(c) ==
    IF c = <<>> THEN 0
    ELSE Get(inventory, Head(c).k) * Head(c).v + CatalogTotal(Tail(c))

\* C10: a completed checkout charges the sum over the cart of the catalog
\* price times the cart quantity.
C10_ChargesCatalogPrices ==
    [][\A proceed \in {"yes", "no"} :
          (checkout(proceed) /\ cart # EmptyDict /\ cart' = EmptyDict) =>
              balance - balance' = CatalogTotal(cart)]_vars

\* C11: for the same query, main.py's search_inventory on a mapping returns
\* the list that search.py's search_inventory returns on the mapping's keys.
C11_ImplementationsAgree ==
    /\ (spc = "returned" /\ pc = "returned") => results = search_output
    /\ (spc = "raised" <=> pc = "raised") \/ spc = "call" \/ pc = "call"

\* both calls returned, on a query that keeps some keys of the mapping and
\* rejects others
C11_Witness ==
    /\ spc = "returned"
    /\ pc = "returned"
    /\ Len(inventory) >= 2
    /\ Cardinality(TermSet(query)) >= 1
    /\ Len(results) >= 1
    /\ Len(results) < Len(inventory)

\* C12: a checkout that does not complete (empty cart, answer other than
\* 'yes', balance below the total) changes neither the balance, the cart, the
\* session inventory nor the saved account data; a completed checkout deducts
\* the total from the balance and empties the cart.
C12_CheckoutAllOrNothing ==
    [][\A proceed \in {"yes", "no"} :
          checkout(proceed) =>
              LET total == CartTotal(cart, inventory_copy)
                  completes == cart # EmptyDict /\ proceed = "yes" /\ balance >= total
              IN /\ ~completes =>
                       UNCHANGED <<balance, cart, inventory_copy, accounts_file>>
                 /\ completes =>
                       /\ balance' = balance - total
                       /\ cart' = EmptyDict
                       /\ accounts_file' = balance']_vars

\* a non-empty cart whose total exceeds a positive balance: checkout refuses
C12_Witness ==
    /\ pc = "purchase"
    /\ cart # EmptyDict
    /\ balance > 0
    /\ balance < CartTotal(cart, inventory_copy)

\* C13: the account balance, in memory and as saved, is never negative.
C13_BalanceNonNegative ==
    /\ balance >= 0
    /\ accounts_file >= 0

\* just after a checkout that used up almost all of the funded balance
C13_Witness ==
    /\ pc = "purchase"
    /\ cart = EmptyDict
    /\ inventory_copy # inventory
    /\ balance > 0
    /\ balance < funding_options[1]

\* C14: no step changes the catalog held by the main menu, and every new
\* purchase session starts with an empty cart and the catalog's values.
C14_SessionUsesCopy ==
    [][/\ inventory' = inventory
       /\ purchase_menu => (cart' = EmptyDict /\ inventory_copy' = inventory)]_vars

\* a fresh session opened after an earlier session's checkout was paid
C14_Witness ==
    /\ pc = "purchase"
    /\ cart = EmptyDict
    /\ inventory_copy = inventory
    /\ balance > 0
    /\ balance < funding_options[1]

====
